---- MODULE Spec2Model ----
(***************************************************************************)
(* Model of env-monitor (src/main.rs): one run of `main`, which powers on  *)
(* the LPS25H and HTS221 sensors, sleeps, spawns the two blocking read     *)
(* tasks read_lps25h and read_hts221, joins them and appends one record    *)
(* to the output sink.  The decoders are modelled with the fixed-width     *)
(* integer arithmetic of the source: u8/u16/i16/i32 operations either wrap *)
(* (release profile) or panic (overflow checks on, the debug profile).     *)
(***************************************************************************)
EXTENDS Integers, Sequences, FiniteSets

(***************************************************************************)
(* Bounds of the model.                                                    *)
(***************************************************************************)
\* how many of the sample bytes each byte of the LPS25H block ranges over
NumLpsBytes == 3
\* how many of the sample bytes each single-byte HTS221 field ranges over
NumHtsBytes == 2
\* how many of the sample words each 16-bit HTS221 field ranges over
NumWords == 2

(***************************************************************************)
(* Program constants.                                                      *)
(***************************************************************************)
SettleMs == 50
PressDiv == 4096
TempOffset == 425
TempDiv == 48

(***************************************************************************)
(* Fixed-width integer arithmetic.                                         *)
(***************************************************************************)
MaxI32 == 2147483647
MinI32 == -2147483647 - 1

\* Rust `/` on signed integers: truncation toward zero (b # 0, not MIN / -1),
\* computed from the floor division without negating the dividend
TruncDivPos(a, b) ==
    LET q == a \div b
    IN  IF a < 0 /\ q * b # a THEN q + 1 ELSE q

TruncDiv(a, b) == IF b > 0 THEN TruncDivPos(a, b) ELSE -TruncDivPos(a, -b)

\* `as i16` applied to a u16 bit pattern
AsI16(x) == IF x % 65536 >= 32768 THEN (x % 65536) - 65536 ELSE x % 65536

\* little-endian u16 assembled from two bytes: (lo as u16) | ((hi as u16) << 8)
LeU16(lo, hi) == lo + 256 * hi

\* i16 - i16: the wrapped value and whether the exact difference left i16
SubI16(a, b) == [v |-> AsI16(a - b), of |-> (a - b > 32767 \/ a - b < -32768)]

\* u8 - u8
SubU8(a, b) == [v |-> (a - b) % 256, of |-> (a < b)]

\* u16 - u16
SubU16(a, b) == [v |-> (a - b) % 65536, of |-> (a < b)]

\* byte i (0..3) of the two's-complement 32-bit pattern of x
Limb(x, i) ==
    CASE i = 0 -> x % 256
      [] i = 1 -> (x \div 256) % 256
      [] i = 2 -> (x \div 65536) % 256
      [] i = 3 -> (x \div 16777216) % 256

\* the i32 whose bit pattern has bytes r0 (low) .. r3 (high)
FromLimbs(r0, r1, r2, r3) ==
    (IF r3 >= 128 THEN r3 - 256 ELSE r3) * 16777216 + r2 * 65536 + r1 * 256 + r0

\* a * b modulo 2^32 as an i32, by schoolbook multiplication of the bytes
WrapMulI32(a, b) ==
    LET c0 == Limb(a, 0) * Limb(b, 0)
        c1 == Limb(a, 0) * Limb(b, 1) + Limb(a, 1) * Limb(b, 0) + (c0 \div 256)
        c2 == Limb(a, 0) * Limb(b, 2) + Limb(a, 1) * Limb(b, 1)
              + Limb(a, 2) * Limb(b, 0) + (c1 \div 256)
        c3 == Limb(a, 0) * Limb(b, 3) + Limb(a, 1) * Limb(b, 2)
              + Limb(a, 2) * Limb(b, 1) + Limb(a, 3) * Limb(b, 0) + (c2 \div 256)
    IN  FromLimbs(c0 % 256, c1 % 256, c2 % 256, c3 % 256)

\* i32 * i32: the wrapped value and whether the exact product left i32
MulI32(a, b) ==
    LET w == WrapMulI32(a, b)
    IN  [v |-> w,
         of |-> (a # 0 /\ ((a = -1 /\ w = MinI32) \/
                           (~(a = -1 /\ w = MinI32) /\ TruncDiv(w, a) # b)))]

\* i32 + i32 with b >= 0
AddI32(a, b) ==
    IF a > MaxI32 - b
    THEN [v |-> MinI32 + (b - (MaxI32 - a) - 1), of |-> TRUE]
    ELSE [v |-> a + b, of |-> FALSE]

\* i32 / i32: panics in every profile on a zero divisor and on MIN / -1
DivI32(a, b) ==
    IF b = 0 \/ (a = MinI32 /\ b = -1)
    THEN [v |-> 0, panic |-> TRUE]
    ELSE [v |-> TruncDiv(a, b), panic |-> FALSE]

\* i32::clamp
Clamp(x, lo, hi) == IF x < lo THEN lo ELSE IF x > hi THEN hi ELSE x

(***************************************************************************)
(* read_lps25h: decoding of the 5-byte block data[1..5] (source data[0..4])*)
(***************************************************************************)
press_raw(data) == data[3] * 65536 + data[2] * 256 + data[1]

temp_raw(data) == AsI16(data[5] * 256 + data[4])

\* variant: the temperature division rounds toward minus infinity
DecodeLps25hFloor(data) ==
    [pressure |-> TruncDiv(press_raw(data), PressDiv),
     temperature |-> TempOffset + (temp_raw(data) \div TempDiv)]

DecodeLps25h(data) ==
    [pressure |-> TruncDiv(press_raw(data), PressDiv),
     temperature |-> TempOffset + TruncDiv(temp_raw(data), TempDiv)]

(***************************************************************************)
(* read_hts221: calibration fields of calib[1..16] (source calib[0..15])   *)
(* and raw samples of data[1..4] (source data[0..3]).                      *)
(***************************************************************************)
\* calib[2] | ((calib[5] & 0x03) << 8)
t0_deg_c_x8(calib) == calib[3] + (calib[6] % 4) * 256

\* calib[3] | ((calib[5] & 0x0C) << 6)
t1_deg_c_x8(calib) == calib[4] + (((calib[6] \div 4) % 4) * 4) * 64

t0_deg_c(calib) == t0_deg_c_x8(calib) \div 8

t1_deg_c(calib) == t1_deg_c_x8(calib) \div 8

t0_out(calib) == AsI16(LeU16(calib[13], calib[14]))

t1_out(calib) == AsI16(LeU16(calib[15], calib[16]))

h0_rh_x2(calib) == calib[1]

h1_rh_x2(calib) == calib[2]

h0_t0_out(calib) == AsI16(LeU16(calib[7], calib[8]))

h1_t0_out(calib) == AsI16(LeU16(calib[11], calib[12]))

h0_rh(calib) == h0_rh_x2(calib) \div 2

h1_rh(calib) == h1_rh_x2(calib) \div 2

t_out(data) == AsI16(data[4] * 256 + data[3])

h_out(data) == AsI16(data[2] * 256 + data[1])

\* variant: the interpolation without the t1_out != t0_out test
TempStepNoGuard(calib, data) ==
    LET d_out == SubI16(t_out(data), t0_out(calib))
        d_deg == SubU16(t1_deg_c(calib), t0_deg_c(calib))
        scaled == MulI32(d_deg.v, 10)
        tmp32 == MulI32(d_out.v, scaled.v)
        span == SubI16(t1_out(calib), t0_out(calib))
        quot == DivI32(tmp32.v, span.v)
        base == MulI32(t0_deg_c(calib), 10)
        sum == AddI32(quot.v, base.v)
    IN  [v |-> sum.v,
         of |-> (d_out.of \/ d_deg.of \/ scaled.of \/ tmp32.of \/ span.of
                 \/ base.of \/ sum.of),
         panic |-> quot.panic]

\* lines 77-82: value of `temp`, whether an operation overflowed its type
\* (a panic when overflow checks are on) and whether a division panicked
TempStep(calib, data) ==
    IF t1_out(calib) # t0_out(calib)
    THEN LET d_out == SubI16(t_out(data), t0_out(calib))
             d_deg == SubU16(t1_deg_c(calib), t0_deg_c(calib))
             scaled == MulI32(d_deg.v, 10)
             tmp32 == MulI32(d_out.v, scaled.v)
             span == SubI16(t1_out(calib), t0_out(calib))
             quot == DivI32(tmp32.v, span.v)
             base == MulI32(t0_deg_c(calib), 10)
             sum == AddI32(quot.v, base.v)
         IN  [v |-> sum.v,
              of |-> (d_out.of \/ d_deg.of \/ scaled.of \/ tmp32.of \/ span.of
                      \/ base.of \/ sum.of),
              panic |-> quot.panic]
    ELSE LET base == MulI32(t0_deg_c(calib), 10)
         IN  [v |-> base.v, of |-> base.of, panic |-> FALSE]

\* lines 84-90: value of `hum` after scaling and clamping, with the same flags
HumStep(calib, data) ==
    LET d_out == SubI16(h_out(data), h0_t0_out(calib))
        d_rh == SubU8(h1_rh(calib), h0_rh(calib))
        tmp == MulI32(d_out.v, d_rh.v)
        span == SubI16(h1_t0_out(calib), h0_t0_out(calib))
        quot == IF h1_t0_out(calib) # h0_t0_out(calib)
                THEN DivI32(tmp.v, span.v)
                ELSE [v |-> 0, panic |-> FALSE]
        hum == IF h1_t0_out(calib) # h0_t0_out(calib)
               THEN AddI32(quot.v, h0_rh(calib))
               ELSE [v |-> h0_rh(calib), of |-> FALSE]
        x10 == MulI32(hum.v, 10)
    IN  [v |-> Clamp(x10.v, 0, 1000),
         of |-> (d_out.of \/ d_rh.of \/ tmp.of
                 \/ (h1_t0_out(calib) # h0_t0_out(calib) /\ (span.of \/ hum.of))
                 \/ x10.of),
         panic |-> quot.panic]

\* line 91 reached with the values t and h of `temp` and `hum`, unless one of
\* the steps panicked: a division panic, or an overflow when checks are on
DecodeOutcome(t, h, checks) ==
    IF t.panic \/ h.panic \/ (checks /\ (t.of \/ h.of))
    THEN [panicked |-> TRUE, humidity |-> 0, temperature |-> 0]
    ELSE [panicked |-> FALSE, humidity |-> h.v, temperature |-> t.v]

\* the decode of read_hts221 under a build with (checks) or without overflow
\* checks: a panic leaves no result
DecodeHts221(calib, data, checks) ==
    DecodeOutcome(TempStep(calib, data), HumStep(calib, data), checks)

(***************************************************************************)
(* Bytes the bus may deliver.                                              *)
(***************************************************************************)
LpsByteSamples == <<0, 96, 255, 128, 47>>

HtsByteSamples == <<160, 80, 13, 255, 0>>

\* calib[5]: the two high bits of t0 (bits 0-1) and of t1 (bits 2-3)
HtsHighBitSamples == <<13, 0, 6, 255, 8>>

\* (low byte, high byte) of 0, -32768, 1000, 500, 32767, -1
WordSamples == << <<0, 0>>, <<0, 128>>, <<232, 3>>, <<244, 1>>, <<255, 127>>, <<255, 255>> >>

Prefix(samples, n) == {samples[i] : i \in 1..(IF n < Len(samples) THEN n ELSE Len(samples))}

LpsBytes == Prefix(LpsByteSamples, NumLpsBytes)

HtsBytes == Prefix(HtsByteSamples, NumHtsBytes)

HtsHighBits == Prefix(HtsHighBitSamples, NumHtsBytes)

Words == Prefix(WordSamples, NumWords)

\* every 5-byte block over the sample bytes
LpsBlocks == [1..5 -> LpsBytes]

\* the 16-byte calibration block with the given fields; the bytes no field
\* of the decoder reads (source calib[4], calib[8], calib[9]) are zero
CalibBlock(b0, b1, b2, b3, b5, w6, w10, w12, w14) ==
    <<b0, b1, b2, b3, 0, b5, w6[1], w6[2], 0, 0, w10[1], w10[2],
      w12[1], w12[2], w14[1], w14[2]>>

\* the raw samples range over one more sample word than the calibration
\* reference points
RawWords == Prefix(WordSamples, NumWords + 1)

\* every 4-byte raw block over the sample words
HtsDatas == {<<h[1], h[2], t[1], t[2]>> : h \in RawWords, t \in RawWords}

\* blocks delivered during a whole run of main
RunLpsBlocks == {<<0, 0, 96, 0, 0>>, <<255, 255, 128, 255, 255>>}

RunHtsCalibs ==
    {CalibBlock(80, 160, 80, 160, 0, <<0, 0>>, <<232, 3>>, <<0, 0>>, <<232, 3>>),
     CalibBlock(160, 80, 160, 80, 13, <<0, 0>>, <<0, 0>>, <<0, 128>>, <<0, 128>>)}

RunHtsDatas == {<<244, 1, 244, 1>>, <<255, 127, 255, 127>>}

Timestamps == {1700000000, 1700000060}

Sinks == {"stdout", "file"}

(***************************************************************************)
(* State.                                                                  *)
(***************************************************************************)
VARIABLES
    overflow_checks, \* build profile: TRUE when integer overflow panics
    args,            \* Args: [init, output]
    pc,              \* position of main
    powered,         \* sensors whose power-on write succeeded
    elapsed,         \* milliseconds slept in the settle delay
    bus_ops,         \* bus operations attempted so far
    bus_failed,      \* bus operations that returned an error
    lps_pc,          \* position of the read_lps25h task
    lps_data,        \* data: [u8; 5] of read_lps25h
    lps_result,      \* outcome of the read_lps25h task
    hts_pc,          \* position of the read_hts221 task
    hts_calib,       \* calib: [u8; 16] of read_hts221
    hts_data,        \* data: [u8; 4] of read_hts221
    hts_result,      \* outcome of the read_hts221 task
    readings,        \* pressure, temp_press, humidity, temp_hum, as main binds them
    timestamp,       \* <<Utc::now().timestamp()>> once taken, <<>> before
    sink             \* lines written: <<where, line>>

vars == <<overflow_checks, args, pc, powered, elapsed, bus_ops, bus_failed, lps_pc, lps_data,
          lps_result, hts_pc, hts_calib, hts_data, hts_result, readings,
          timestamp, sink>>

main_vars == <<pc, powered, elapsed, readings, timestamp, sink>>

lps_vars == <<lps_pc, lps_data, lps_result>>

hts_vars == <<hts_pc, hts_calib, hts_data, hts_result>>

NoResult == [status |-> "none"]

TransportError == [status |-> "err"]

JoinError == [status |-> "panic"]

NoBlock == <<>>

Init ==
    /\ overflow_checks \in BOOLEAN
    /\ args \in [init : BOOLEAN, output : Sinks]
    /\ pc = "open_lps"
    /\ powered = {}
    /\ elapsed = 0
    /\ bus_ops = {}
    /\ bus_failed = {}
    /\ lps_pc = "idle"
    /\ lps_data = NoBlock
    /\ lps_result = NoResult
    /\ hts_pc = "idle"
    /\ hts_calib = NoBlock
    /\ hts_data = NoBlock
    /\ hts_result = NoResult
    /\ readings = <<>>
    /\ timestamp = <<>>
    /\ sink = <<>>

(***************************************************************************)
(* main                                                                    *)
(***************************************************************************)
\* a `?` in main on a bus operation: go on when it succeeded, return Err if not
BusStep(at, op, next) ==
    /\ pc = at
    /\ bus_ops' = bus_ops \cup {op}
    /\ \/ pc' = next /\ UNCHANGED bus_failed
       \/ pc' = "exit_err" /\ bus_failed' = bus_failed \cup {op}

\* line 97
OpenLps ==
    /\ BusStep("open_lps", "open_lps", "open_hts")
    /\ UNCHANGED <<overflow_checks, args, powered, elapsed, readings, timestamp, sink,
                   lps_vars, hts_vars>>

\* line 98
OpenHts ==
    /\ BusStep("open_hts", "open_hts", "power_lps")
    /\ UNCHANGED <<overflow_checks, args, powered, elapsed, readings, timestamp, sink,
                   lps_vars, hts_vars>>

\* line 101
PowerOnLps ==
    /\ BusStep("power_lps", "power_lps", "power_hts")
    /\ powered' = IF pc' = "power_hts" THEN powered \cup {"lps"} ELSE powered
    /\ UNCHANGED <<overflow_checks, args, elapsed, readings, timestamp, sink,
                   lps_vars, hts_vars>>

\* line 102
PowerOnHts ==
    /\ BusStep("power_hts", "power_hts", "sleep")
    /\ powered' = IF pc' = "sleep" THEN powered \cup {"hts"} ELSE powered
    /\ UNCHANGED <<overflow_checks, args, elapsed, readings, timestamp, sink,
                   lps_vars, hts_vars>>

\* variant: the timer fires one millisecond early
SettleDoneEarly == elapsed >= SettleMs - 1

\* line 103: whether the timer of async_sleep has fired
SettleDone == elapsed >= SettleMs

\* line 103: the timer of async_sleep has not fired yet
SleepTick ==
    /\ pc = "sleep"
    /\ ~SettleDone
    /\ elapsed' = elapsed + 1
    /\ UNCHANGED <<overflow_checks, args, pc, powered, bus_ops, bus_failed, readings, timestamp,
                   sink, lps_vars, hts_vars>>

\* line 103: the await returns once the timer has fired
SleepWake ==
    /\ pc = "sleep"
    /\ SettleDone
    /\ pc' = "check_init"
    /\ UNCHANGED <<overflow_checks, args, powered, elapsed, bus_ops, bus_failed, readings, timestamp,
                   sink, lps_vars, hts_vars>>

\* variant: the init flag is not consulted
CheckInitIgnored ==
    /\ pc = "check_init"
    /\ pc' = "spawn_lps"
    /\ UNCHANGED <<overflow_checks, args, powered, elapsed, bus_ops, bus_failed, readings,
                   timestamp, sink, lps_vars, hts_vars>>

\* lines 105-108
CheckInit ==
    /\ pc = "check_init"
    /\ pc' = IF args.init THEN "exit_ok" ELSE "spawn_lps"
    /\ UNCHANGED <<overflow_checks, args, powered, elapsed, bus_ops, bus_failed, readings, timestamp,
                   sink, lps_vars, hts_vars>>

\* line 110
SpawnLps ==
    /\ pc = "spawn_lps"
    /\ pc' = "spawn_hts"
    /\ lps_pc' = "cmd"
    /\ UNCHANGED <<overflow_checks, args, powered, elapsed, bus_ops, bus_failed, readings, timestamp,
                   sink, lps_data, lps_result, hts_vars>>

\* line 111
SpawnHts ==
    /\ pc = "spawn_hts"
    /\ pc' = "await_lps"
    /\ hts_pc' = "cmd_calib"
    /\ UNCHANGED <<overflow_checks, args, powered, elapsed, bus_ops, bus_failed, readings, timestamp,
                   sink, hts_calib, hts_data, hts_result, lps_vars>>

\* line 112: lps25h_task.await?? -- a JoinError or a LinuxI2CError returns Err
AwaitLps ==
    /\ pc = "await_lps"
    /\ lps_pc = "done"
    /\ IF lps_result.status = "ok"
       THEN /\ pc' = "await_hts"
            /\ readings' = <<lps_result.pressure, lps_result.temperature>>
       ELSE /\ pc' = "exit_err"
            /\ UNCHANGED readings
    /\ UNCHANGED <<overflow_checks, args, powered, elapsed, bus_ops, bus_failed, timestamp, sink,
                   lps_vars, hts_vars>>

\* variant: the result of the humidity task is unwrapped without `??`
AwaitHtsUnchecked ==
    /\ pc = "await_hts"
    /\ hts_pc = "done"
    /\ pc' = "timestamp"
    /\ readings' = readings \o (IF hts_result.status = "ok"
                                THEN <<hts_result.humidity, hts_result.temperature>>
                                ELSE <<0, 0>>)
    /\ UNCHANGED <<overflow_checks, args, powered, elapsed, bus_ops, bus_failed, timestamp,
                   sink, lps_vars, hts_vars>>

\* line 113: hts221_task.await??
AwaitHts ==
    /\ pc = "await_hts"
    /\ hts_pc = "done"
    /\ IF hts_result.status = "ok"
       THEN /\ pc' = "timestamp"
            /\ readings' = readings \o <<hts_result.humidity, hts_result.temperature>>
       ELSE /\ pc' = "exit_err"
            /\ UNCHANGED readings
    /\ UNCHANGED <<overflow_checks, args, powered, elapsed, bus_ops, bus_failed, timestamp, sink,
                   lps_vars, hts_vars>>

\* line 114
TakeTimestamp ==
    /\ pc = "timestamp"
    /\ \E now \in Timestamps : timestamp' = <<now>>
    /\ pc' = "write"
    /\ UNCHANGED <<overflow_checks, args, powered, elapsed, bus_ops, bus_failed, readings, sink,
                   lps_vars, hts_vars>>

\* lines 116-119: timestamp, pressure, temp_press, humidity, temp_hum
output_line == timestamp \o readings

\* lines 120-133: opening the file or the writeln may fail, and then nothing
\* is appended
WriteRecord ==
    /\ pc = "write"
    /\ \E ok \in BOOLEAN :
          IF ok
          THEN /\ sink' = Append(sink, <<args.output, output_line>>)
               /\ pc' = "exit_ok"
          ELSE /\ UNCHANGED sink
               /\ pc' = "exit_err"
    /\ UNCHANGED <<overflow_checks, args, powered, elapsed, bus_ops, bus_failed, readings, timestamp,
                   lps_vars, hts_vars>>

(***************************************************************************)
(* The read_lps25h task                                                    *)
(***************************************************************************)
\* a `?` in a read task on a bus operation: the operation is attempted at
\* position `at` and either succeeds or returns a LinuxI2CError
TaskBusStep(task_pc, at, op, ok) ==
    /\ task_pc = at
    /\ bus_ops' = bus_ops \cup {op}
    /\ bus_failed' = IF ok THEN bus_failed ELSE bus_failed \cup {op}

\* line 38
LpsWriteCmd ==
    /\ \E ok \in BOOLEAN :
          /\ TaskBusStep(lps_pc, "cmd", "lps_cmd", ok)
          /\ IF ok
             THEN lps_pc' = "read" /\ UNCHANGED lps_result
             ELSE lps_pc' = "done" /\ lps_result' = TransportError
    /\ UNCHANGED <<overflow_checks, args, main_vars, lps_data, hts_vars>>

\* line 39
LpsRead ==
    /\ \/ /\ TaskBusStep(lps_pc, "read", "lps_read", TRUE)
          /\ lps_pc' = "decode"
          /\ lps_data' \in RunLpsBlocks
          /\ UNCHANGED lps_result
       \/ /\ TaskBusStep(lps_pc, "read", "lps_read", FALSE)
          /\ lps_pc' = "done"
          /\ lps_result' = TransportError
          /\ UNCHANGED lps_data
    /\ UNCHANGED <<overflow_checks, args, main_vars, hts_vars>>

\* what joining the task yields: Ok((pressure, temperature))
LpsTaskResult(r) ==
    [status |-> "ok", pressure |-> r.pressure, temperature |-> r.temperature]

\* lines 41-47
LpsDecode ==
    /\ lps_pc = "decode"
    /\ lps_pc' = "done"
    /\ lps_result' = LpsTaskResult(DecodeLps25h(lps_data))
    /\ UNCHANGED <<overflow_checks, args, main_vars, bus_ops, bus_failed, lps_data, hts_vars>>

(***************************************************************************)
(* The read_hts221 task                                                    *)
(***************************************************************************)
\* line 53
HtsWriteCalibCmd ==
    /\ \E ok \in BOOLEAN :
          /\ TaskBusStep(hts_pc, "cmd_calib", "hts_cmd_calib", ok)
          /\ IF ok
             THEN hts_pc' = "read_calib" /\ UNCHANGED hts_result
             ELSE hts_pc' = "done" /\ hts_result' = TransportError
    /\ UNCHANGED <<overflow_checks, args, main_vars, hts_calib, hts_data, lps_vars>>

\* line 54
HtsReadCalib ==
    /\ \/ /\ TaskBusStep(hts_pc, "read_calib", "hts_read_calib", TRUE)
          /\ hts_pc' = "cmd_data"
          /\ hts_calib' \in RunHtsCalibs
          /\ UNCHANGED hts_result
       \/ /\ TaskBusStep(hts_pc, "read_calib", "hts_read_calib", FALSE)
          /\ hts_pc' = "done"
          /\ hts_result' = TransportError
          /\ UNCHANGED hts_calib
    /\ UNCHANGED <<overflow_checks, args, main_vars, hts_data, lps_vars>>

\* line 72
HtsWriteDataCmd ==
    /\ \E ok \in BOOLEAN :
          /\ TaskBusStep(hts_pc, "cmd_data", "hts_cmd_data", ok)
          /\ IF ok
             THEN hts_pc' = "read_data" /\ UNCHANGED hts_result
             ELSE hts_pc' = "done" /\ hts_result' = TransportError
    /\ UNCHANGED <<overflow_checks, args, main_vars, hts_calib, hts_data, lps_vars>>

\* line 73
HtsReadData ==
    /\ \/ /\ TaskBusStep(hts_pc, "read_data", "hts_read_data", TRUE)
          /\ hts_pc' = "decode"
          /\ hts_data' \in RunHtsDatas
          /\ UNCHANGED hts_result
       \/ /\ TaskBusStep(hts_pc, "read_data", "hts_read_data", FALSE)
          /\ hts_pc' = "done"
          /\ hts_result' = TransportError
          /\ UNCHANGED hts_data
    /\ UNCHANGED <<overflow_checks, args, main_vars, hts_calib, lps_vars>>

\* what joining the task yields: Ok((hum, temp)), or a JoinError after a panic
HtsTaskResult(r) ==
    IF r.panicked
    THEN JoinError
    ELSE [status |-> "ok", humidity |-> r.humidity, temperature |-> r.temperature]

\* lines 56-68 and 74-91
HtsDecode ==
    /\ hts_pc = "decode"
    /\ hts_pc' = "done"
    /\ hts_result' = HtsTaskResult(DecodeHts221(hts_calib, hts_data, overflow_checks))
    /\ UNCHANGED <<overflow_checks, args, main_vars, bus_ops, bus_failed, hts_calib, hts_data,
                   lps_vars>>

Next ==
    \/ OpenLps \/ OpenHts \/ PowerOnLps \/ PowerOnHts \/ SleepTick \/ SleepWake
    \/ CheckInit \/ SpawnLps \/ SpawnHts \/ AwaitLps \/ AwaitHts \/ TakeTimestamp
    \/ WriteRecord
    \/ LpsWriteCmd \/ LpsRead \/ LpsDecode
    \/ HtsWriteCalibCmd \/ HtsReadCalib \/ HtsWriteDataCmd \/ HtsReadData \/ HtsDecode

Spec == Init /\ [][Next]_vars

(***************************************************************************)
(* The decoders on their own: the state of a run in which the bus reads    *)
(* of one task have just succeeded, with the delivered bytes ranging over  *)
(* the sample sets, followed by that task's decode.                        *)
(***************************************************************************)
MainOps == {"open_lps", "open_hts", "power_lps", "power_hts"}

LpsOps == {"lps_cmd", "lps_read"}

HtsOps == {"hts_cmd_calib", "hts_read_calib", "hts_cmd_data", "hts_read_data"}

Spawned ==
    /\ overflow_checks \in BOOLEAN
    /\ args = [init |-> FALSE, output |-> "stdout"]
    /\ pc = "await_lps"
    /\ powered = {"lps", "hts"}
    /\ elapsed = SettleMs
    /\ bus_failed = {}
    /\ readings = <<>>
    /\ timestamp = <<>>
    /\ sink = <<>>

InitLps ==
    /\ Spawned
    /\ bus_ops = MainOps \cup LpsOps
    /\ lps_pc = "decode"
    /\ lps_data \in LpsBlocks
    /\ lps_result = NoResult
    /\ hts_pc = "cmd_calib"
    /\ hts_calib = NoBlock
    /\ hts_data = NoBlock
    /\ hts_result = NoResult

SpecLps == InitLps /\ [][LpsDecode]_vars

InitHts ==
    /\ Spawned
    /\ bus_ops = MainOps \cup HtsOps
    /\ lps_pc = "cmd"
    /\ lps_data = NoBlock
    /\ lps_result = NoResult
    /\ hts_pc = "decode"
    /\ \E b0 \in HtsBytes, b1 \in HtsBytes, b2 \in HtsBytes, b3 \in HtsBytes,
          b5 \in HtsHighBits, w6 \in Words, w10 \in Words, w12 \in Words,
          w14 \in Words :
          hts_calib = CalibBlock(b0, b1, b2, b3, b5, w6, w10, w12, w14)
    /\ hts_data \in HtsDatas
    /\ hts_result = NoResult

SpecHts == InitHts /\ [][HtsDecode]_vars

(***************************************************************************)
(* The arithmetic of the specification, over the unbounded integers.       *)
(***************************************************************************)
Abs(x) == IF x < 0 THEN -x ELSE x

\* a / b rounded toward zero
ExactTrunc(a, b) ==
    IF (a < 0) = (b < 0) THEN Abs(a) \div Abs(b) ELSE -(Abs(a) \div Abs(b))

\* the two's-complement value of the 16-bit pattern lo + 256 * hi
ExactS16(lo, hi) ==
    IF lo + 256 * hi >= 32768 THEN lo + 256 * hi - 65536 ELSE lo + 256 * hi

ExactClamp(x) == IF x < 0 THEN 0 ELSE IF x > 1000 THEN 1000 ELSE x

ExactH0Rh == hts_calib[1] \div 2

ExactH1Rh == hts_calib[2] \div 2

ExactH0T0Out == ExactS16(hts_calib[7], hts_calib[8])

ExactH1T0Out == ExactS16(hts_calib[11], hts_calib[12])

ExactHOut == ExactS16(hts_data[1], hts_data[2])

ExactT0DegC == (hts_calib[3] + 256 * (hts_calib[6] % 4)) \div 8

ExactT1DegC == (hts_calib[4] + 256 * ((hts_calib[6] \div 4) % 4)) \div 8

ExactT0Out == ExactS16(hts_calib[13], hts_calib[14])

ExactT1Out == ExactS16(hts_calib[15], hts_calib[16])

ExactTOut == ExactS16(hts_data[3], hts_data[4])

LpsReturned == lps_pc = "done" /\ lps_result.status = "ok"

HtsDecoded == hts_pc = "done" /\ hts_data # NoBlock

HtsReturned == hts_pc = "done" /\ hts_result.status = "ok"

(***************************************************************************)
(* Claims                                                                  *)
(***************************************************************************)
\* C1: for every 5-byte block b, read_lps25h returns
\* pressure = (b[0] + 256*b[1] + 65536*b[2]) div 4096 and
\* temperature = 425 + trunc(s16(b[3] + 256*b[4]) / 48), the division rounding
\* toward zero (a raw temperature of -1 gives 425); the bytes
\* [0x00,0x00,0x60,0x00,0x00] give (1536, 425).
C1_LpsDecode ==
    LpsReturned =>
        /\ lps_result.pressure =
              (lps_data[1] + 256 * lps_data[2] + 65536 * lps_data[3]) \div 4096
        /\ lps_result.temperature =
              425 + ExactTrunc(ExactS16(lps_data[4], lps_data[5]), 48)
        /\ (ExactS16(lps_data[4], lps_data[5]) = -1 => lps_result.temperature = 425)
        /\ (lps_data = <<0, 0, 96, 0, 0>> =>
               lps_result.pressure = 1536 /\ lps_result.temperature = 425)

\* C1 witness: a block with pressure bytes 0x600000 and raw temperature -1 has
\* been decoded to (1536, 425)
C1_Witness ==
    /\ LpsReturned
    /\ lps_data = <<0, 0, 96, 255, 255>>
    /\ lps_result.pressure = 1536
    /\ lps_result.temperature = 425

\* C2: whenever bit 23 of the pressure field (bit 7 of byte 2) is set, the raw
\* value is sign-extended to a negative i32 before the division by 4096, so
\* the returned pressure is <= 0.
C2_PressureSignExtended ==
    (LpsReturned /\ lps_data[3] >= 128) => lps_result.pressure <= 0

\* C3: when h1_t0_out != h0_t0_out, the humidity returned by read_hts221 is
\* clamp(10 * (trunc((h_out - h0_t0_out) * (h1_rh - h0_rh)
\*                   / (h1_t0_out - h0_t0_out)) + h0_rh), 0, 1000)
\* in exact integer arithmetic, for all byte values.
C3_HumidityExact ==
    (HtsReturned /\ ExactH1T0Out # ExactH0T0Out) =>
        hts_result.humidity =
            ExactClamp(10 * (ExactTrunc((ExactHOut - ExactH0T0Out) * (ExactH1Rh - ExactH0Rh),
                                        ExactH1T0Out - ExactH0T0Out)
                             + ExactH0Rh))

\* C4: when t1_out != t0_out, the temperature returned by read_hts221 is
\* trunc((t_out - t0_out) * (t1_degC - t0_degC) * 10 / (t1_out - t0_out))
\* + t0_degC * 10 in exact integer arithmetic, for all byte values.
C4_TemperatureExact ==
    (HtsReturned /\ ExactT1Out # ExactT0Out) =>
        hts_result.temperature =
            ExactTrunc((ExactTOut - ExactT0Out) * (ExactT1DegC - ExactT0DegC) * 10,
                       ExactT1Out - ExactT0Out)
            + ExactT0DegC * 10

\* C5: when h1_t0_out == h0_t0_out, read_hts221 completes without aborting
\* and returns humidity = clamp(h0_rh * 10, 0, 1000), whatever h_out, h0_rh
\* and h1_rh are.  Stated for the blocks whose temperature span is degenerate
\* as well, where lines 77-82 perform no subtraction and no division.
C5_HumidityZeroSpanCompletes ==
    (HtsDecoded /\ ExactH1T0Out = ExactH0T0Out /\ ExactT1Out = ExactT0Out) =>
        /\ hts_result.status = "ok"
        /\ hts_result.humidity = ExactClamp(ExactH0Rh * 10)

\* C6: when t1_out == t0_out, the temperature returned by read_hts221 is
\* t0_degC * 10 for every t_out and t1_degC, and no division by zero is
\* reached: a build without overflow checks, where a division is the only
\* operation that can panic, always returns.
C6_TemperatureZeroSpan ==
    (HtsDecoded /\ ExactT1Out = ExactT0Out) =>
        /\ hts_result.status = "ok" => hts_result.temperature = ExactT0DegC * 10
        /\ ~overflow_checks => hts_result.status = "ok"

\* C6 witness: a degenerate temperature span with t_out off the reference
\* point and t1_degC different from t0_degC has been decoded to t0_degC * 10
C6_Witness ==
    /\ HtsReturned
    /\ ExactT1Out = ExactT0Out
    /\ ExactTOut # ExactT0Out
    /\ ExactT1DegC # ExactT0DegC
    /\ ExactT0DegC > 0
    /\ hts_result.temperature = ExactT0DegC * 10

\* C7: for any calibration and raw bytes delivered by successful bus reads,
\* read_hts221 produces a humidity h with 0 <= h <= 1000: no intermediate
\* step overflows its integer type, so the decode cannot fail.
C7_HumidityAlwaysProduced ==
    HtsDecoded =>
        /\ hts_result.status = "ok"
        /\ hts_result.humidity >= 0
        /\ hts_result.humidity <= 1000

\* C8: a record is handed to the sink only if both read_lps25h and
\* read_hts221 completed successfully, and then it is the one full record of
\* the run; if any bus operation fails, the run does not end successfully and
\* no record is written, in whichever order the two tasks finish.
C8_RecordOnlyIfBothSucceed ==
    /\ sink # <<>> =>
          /\ lps_result.status = "ok"
          /\ hts_result.status = "ok"
          /\ Len(sink) = 1
          /\ sink[1][2] = timestamp \o <<lps_result.pressure, lps_result.temperature,
                                         hts_result.humidity, hts_result.temperature>>
          /\ Len(timestamp) = 1
    /\ bus_failed # {} => (sink = <<>> /\ pc # "exit_ok")
    /\ pc = "exit_err" => sink = <<>>

\* C8 witness: the pressure task succeeded, a bus operation of the humidity
\* task failed, and the run has ended with an error and an empty sink
C8_Witness ==
    /\ pc = "exit_err"
    /\ lps_result.status = "ok"
    /\ hts_result.status = "err"
    /\ "hts_read_data" \in bus_failed
    /\ sink = <<>>

\* C9: with the initialize-only flag set, a run performs only the power-on
\* writes (on handles it opened) and the settle delay and then ends
\* successfully: no command write or block read is issued, no decode task is
\* started, no timestamp is taken and no record is written.
C9_InitOnly ==
    args.init =>
        /\ bus_ops \subseteq MainOps
        /\ lps_pc = "idle"
        /\ hts_pc = "idle"
        /\ timestamp = <<>>
        /\ readings = <<>>
        /\ sink = <<>>
        /\ pc \notin {"spawn_lps", "spawn_hts", "await_lps", "await_hts", "timestamp", "write"}
        /\ pc = "exit_ok" => (powered = {"lps", "hts"} /\ elapsed >= SettleMs)

\* C9 witness: a run with the flag set has ended successfully after both
\* power-on writes and the delay
C9_Witness ==
    /\ args.init
    /\ pc = "exit_ok"
    /\ bus_ops = MainOps
    /\ elapsed = SettleMs

\* C10: a register access of either sensor (command write or block read)
\* happens only after that sensor's power-on write succeeded and the whole
\* settle delay has elapsed, under every interleaving of the two tasks.
C10_ReadsAfterSettle ==
    /\ (lps_pc # "idle" \/ bus_ops \cap LpsOps # {}) =>
          ("lps" \in powered /\ elapsed >= SettleMs)
    /\ (hts_pc # "idle" \/ bus_ops \cap HtsOps # {}) =>
          ("hts" \in powered /\ elapsed >= SettleMs)

\* C10 witness: both tasks have issued their first command write, the
\* humidity task first, after the full delay
C10_Witness ==
    /\ "lps_cmd" \in bus_ops
    /\ "hts_read_calib" \in bus_ops
    /\ lps_pc = "read"
    /\ elapsed = SettleMs
    /\ powered = {"lps", "hts"}

====
